---- MODULE Spec2Model ----
(***************************************************************************)
(* State-machine model of the Hyperliquid recap generator:                 *)
(*   src/src/main.py           RecapGenerator.run, main                    *)
(*   src/src/config.py         validate_config and the module attributes   *)
(*   src/src/state_manager.py  StateManager                                *)
(*   src/src/recap_notifier.py RecapNotifier (signatures, recap message)   *)
(*   src/src/wallet_recap.py   WalletRecap                                 *)
(*   src/src/hyperliquid_api.py HyperliquidAPI (retries, fetches, parsing) *)
(*                                                                         *)
(* Spec         : calls of main() and of RecapGenerator(scan_type).run(..) *)
(*                over a persistent state file and a wall clock.           *)
(* SpecStore    : calls of the StateManager API on one state file.         *)
(* SpecClassify : WalletRecap.build_summary on one fill, over the labels,  *)
(*                sides, sizes and start positions of the fill.            *)
(* SpecRecap    : WalletRecap.build_summary over lists of fills (well- and *)
(*                ill-formed) and lists of positions.                      *)
(* SpecGen      : RecapGenerator.generate_wallet_recap in each scan mode,  *)
(*                over what the exchange answers and how often it fails.   *)
(* SpecRetry    : HyperliquidAPI._retry_wrapper over ceilings, delays and  *)
(*                the outcome of each attempt.                             *)
(* SpecCache    : sequences of HyperliquidAPI.resolve_asset_name calls on  *)
(*                one client, over what the metadata endpoint answers.     *)
(* SpecRender   : WalletRecap.build_summary followed by                    *)
(*                RecapNotifier._format_recap_message, over fill lists     *)
(*                shorter and longer than the display limit.               *)
(***************************************************************************)
EXTENDS Integers, Sequences, FiniteSets, TLC

VARIABLES
    file,                \* content of the state file at state_file_path
    now,                 \* wall clock, milliseconds
    cfg,                 \* module attributes of src/config.py read from the environment
    pc,                  \* position of the process: idle, validate, setup, startup, exited
    entry,               \* how the current run was entered: "main" or "run"
    invoked,             \* scan type the run was invoked with
    scan_type,           \* RecapGenerator.scan_type
    state_manager,       \* the state_manager argument of run(): "None" or "obj"
    sm,                  \* the StateManager instance (its _state attribute)
    start_timestamp_ms,  \* local of run()
    run_started_at,      \* clock value when the run was entered
    calls,               \* calls made by run() so far, in order
    outcome,             \* how the run ended: exit status and the exception that ended it
    ret,                 \* result of the last StateManager API call
    lastSaved,           \* the last (timestamp, mode) that update_state saved successfully
    trade_counts,        \* number of fills the exchange holds for each wallet in the scan window
    fills,               \* WalletRecap.fills
    positions,           \* WalletRecap.positions
    summary,             \* result of WalletRecap(wallet, positions, fills).build_summary()
    request,             \* a call of generate_wallet_recap and what the exchange answers
    recap,               \* result of generate_wallet_recap
    call,                \* a call of HyperliquidAPI._retry_wrapper: ceiling, delay, what each attempt does
    ended,               \* how that call ended
    asset_name_cache,    \* HyperliquidAPI._asset_name_cache
    meta_fetches,        \* calls of get_meta_info made by this HyperliquidAPI instance
    resolved,            \* the last resolve_asset_name call: the id and what was returned
    message              \* the recap message handed to send_message

vars == <<file, now, cfg, pc, entry, invoked, scan_type, state_manager, sm,
          start_timestamp_ms, run_started_at, calls, outcome, ret, lastSaved,
          trade_counts, fills, positions, summary, request, recap,
          call, ended, asset_name_cache, meta_fetches, resolved, message>>

\* what the calls of WalletRecap and generate_wallet_recap work on
unitVars == <<fills, positions, summary, request, recap,
              call, ended, asset_name_cache, meta_fetches, resolved, message>>

\* what the calls of the HyperliquidAPI instance work on
apiVars == <<call, ended, asset_name_cache, meta_fetches, resolved>>

runVars == <<pc, entry, invoked, scan_type, state_manager, start_timestamp_ms,
             run_started_at, calls, outcome>>

-----------------------------------------------------------------------------
(* Bounds *)

MaxTime == 3
MaxWallets == 2
MaxTokens == 2       \* words a direction label is made of
MaxSize == 2         \* largest fill size and start position
MaxFills == 2        \* fills of one wallet in the window
MaxPositions == 3    \* open positions of one wallet
MaxUniverse == 2     \* assets in the metadata universe
MaxFetches == 3      \* metadata fetches of one client
MaxListed == 22      \* trades in one summary handed to the notifier

-----------------------------------------------------------------------------
(* Values *)

NoneStr == "None"          \* Python None where a string is expected
NoneTs == -1               \* Python None where a timestamp is expected

ScanTypes == {"24h", "1h", "incremental"}
Times == 0..MaxTime
Wallets == {"0xa4", "0x06"}

\* lists of at most n wallet addresses (duplicates allowed, as in config.py)
WalletLists(n) == UNION {[1..k -> Wallets] : k \in 0..n}

\* src/config.py, lines 58-59: the defaults of the two trade-count thresholds
MAX_TRADES_PER_DAY == 500
MIN_TRADES_PER_DAY == 1

\* how many fills a wallet can have in the scan window: none (below the
\* activity floor), the bot threshold itself, and one more than the threshold
TradeCounts == {0, MAX_TRADES_PER_DAY, MAX_TRADES_PER_DAY + 1}

\* no value yet (a call that has not been made)
Nothing == [kind |-> "none"]

\* self._asset_name_cache = None
NoCache == [cached |-> FALSE, names |-> <<>>]

\* src/config.py: TELEGRAM_BOT_TOKEN, TELEGRAM_CHAT_ID are os.getenv results
\* (None when unset, possibly empty); WALLET_ADDRESSES is a list.
Configs ==
    [TELEGRAM_BOT_TOKEN : {NoneStr, "", "123:abc"},
     TELEGRAM_CHAT_ID   : {NoneStr, "-100"},
     WALLET_ADDRESSES   : WalletLists(MaxWallets)]

\* names bound at module level by src/config.py
ConfigNames ==
    {"TELEGRAM_BOT_TOKEN", "TELEGRAM_CHAT_ID", "HYPERLIQUID_API_URL",
     "WALLET_ADDRESSES_ENV", "WALLET_ADDRESSES", "SCAN_INTERVAL",
     "POSITION_THRESHOLD", "SIZE_CHANGE_THRESHOLD", "MAX_TRADES_PER_DAY",
     "MIN_TRADES_PER_DAY", "FILTER_BOTS", "API_TIMEOUT", "MAX_RETRIES",
     "RETRY_DELAY", "LOG_LEVEL", "LOG_FILE", "LOG_MAX_BYTES",
     "LOG_BACKUP_COUNT", "SELF_MONITORING_INTERVAL",
     "validate_config", "display_config"}

\* Python truthiness of an optional string
Falsy(s) == s \in {NoneStr, ""}

-----------------------------------------------------------------------------
(* The state file and StateManager._state *)

\* What can be at state_file_path:
\*   missing    os.path.exists is False
\*   unreadable open() raises IOError
\*   invalid    json.load raises JSONDecodeError (empty or truncated text too)
\*   object     a JSON object; ts/mode are its last_run_timestamp/last_scan_type
\*   array      valid JSON that is not an object, e.g. []
NoRecord(k) == [kind |-> k, ts |-> NoneTs, mode |-> NoneStr]

FileContents ==
    {NoRecord(k) : k \in {"missing", "unreadable", "invalid", "array"}}
    \cup [kind : {"object"}, ts : Times \cup {NoneTs}, mode : ScanTypes \cup {NoneStr}]

\* StateManager._state: a dict (isDict) with the two keys, or a non-dict value
EmptyDict == [isDict |-> TRUE, ts |-> NoneTs, mode |-> NoneStr]
NonDict == [isDict |-> FALSE, ts |-> NoneTs, mode |-> NoneStr]

NoSM == [exists |-> FALSE, fresh |-> FALSE, loaded |-> NoneStr, state |-> EmptyDict]

\* StateManager._load_state: the value of self._state after construction
load_state(f) ==
    IF f.kind = "object" THEN [isDict |-> TRUE, ts |-> f.ts, mode |-> f.mode]
    ELSE IF f.kind = "array" THEN NonDict
    ELSE EmptyDict

\* json.dump(self._state, f): the text written by a save that succeeds
dump_state(st) == [kind |-> "object", ts |-> st.ts, mode |-> st.mode]

\* StateManager._save_state under the I/O outcome io:
\*   ok          the file holds the dump, returns True
\*   open_fails  open(path, 'w') raises IOError: file untouched, returns False
\*   write_fails open truncated the file and the write raised IOError:
\*               the file holds incomplete text, returns False
SaveOutcomes == {"ok", "open_fails", "write_fails"}

\* a write that fails leaves the new timestamp next to the old scan type
save_state_mut(st, f, io) ==
    CASE io = "ok" -> dump_state(st)
      [] io = "open_fails" -> f
      [] OTHER -> [kind |-> "object", ts |-> st.ts, mode |-> f.mode]

save_state(st, f, io) ==
    CASE io = "ok" -> dump_state(st)
      [] io = "open_fails" -> f
      [] OTHER -> NoRecord("invalid")

\* StateManager.get_last_run_timestamp: self._state.get("last_run_timestamp")
\* raises AttributeError when _state is not a dict
get_last_run_timestamp(st) ==
    IF st.isDict THEN [kind |-> "value", ts |-> st.ts, mode |-> NoneStr]
    ELSE [kind |-> "AttributeError", ts |-> NoneTs, mode |-> NoneStr]

\* StateManager.get_last_scan_type
get_last_scan_type(st) ==
    IF st.isDict THEN [kind |-> "value", ts |-> NoneTs, mode |-> st.mode]
    ELSE [kind |-> "AttributeError", ts |-> NoneTs, mode |-> NoneStr]

\* StateManager.update_state: the timestamp stored (lines 103-104)
stamp(timestamp_ms, clock) == IF timestamp_ms = NoneTs THEN clock ELSE timestamp_ms

\* StateManager.update_state: self._state after lines 106-107
update_state_mut(st, scan, timestamp_ms, clock) ==
    [isDict |-> TRUE, ts |-> clock, mode |-> scan]

update_state(st, scan, timestamp_ms, clock) ==
    [isDict |-> TRUE, ts |-> stamp(timestamp_ms, clock), mode |-> scan]

\* result of a StateManager API call: the method, how it ended (a value, or the
\* exception it raised), and the value returned
Result(op, r) == [op |-> op, kind |-> r.kind, ts |-> r.ts, mode |-> r.mode]
NoRet == [op |-> NoneStr, kind |-> "none", ts |-> NoneTs, mode |-> NoneStr]
NoSave == [ok |-> FALSE, ts |-> NoneTs, mode |-> NoneStr]

-----------------------------------------------------------------------------
(* config.validate_config *)

validate_config_mut(c) ==
    /\ ~Falsy(c.TELEGRAM_BOT_TOKEN)
    /\ ~Falsy(c.TELEGRAM_CHAT_ID)

\* TRUE when validate_config returns True, FALSE when it raises ValueError
validate_config(c) ==
    /\ ~Falsy(c.TELEGRAM_BOT_TOKEN)
    /\ ~Falsy(c.TELEGRAM_CHAT_ID)
    /\ Len(c.WALLET_ADDRESSES) > 0

-----------------------------------------------------------------------------
(* Call binding *)

\* positional parameters, besides self, of the RecapNotifier methods run() calls
NotifierParams ==
    [send_startup_message    |-> 0,
     send_wallet_recap       |-> 1,
     send_bot_summary        |-> 1,
     send_completion_message |-> 2]

\* Python binds a call only when the argument count matches the parameters
\* (none of these methods has defaults); otherwise the call raises TypeError
\* before the body runs.
binds(method, nargs) == NotifierParams[method] = nargs

\* StateManager.__init__ line 26: state_file_path or config.STATE_FILE_PATH.
\* The attribute lookup on the config module raises AttributeError when the
\* module binds no such name.
state_file_path(arg) ==
    IF arg # NoneStr THEN arg
    ELSE IF "STATE_FILE_PATH" \in ConfigNames THEN "config.STATE_FILE_PATH"
    ELSE "AttributeError"

-----------------------------------------------------------------------------
(* RecapGenerator.run, lines 132-146: the incremental scan setup.            *)
(* result: "ok", "SystemExit" (sys.exit(1)) or "AttributeError".             *)

incremental_setup(scan, manager, st) ==
    IF scan # "incremental"
    THEN [result |-> "ok", scan_type |-> scan, start |-> NoneTs, read |-> FALSE]
    ELSE IF manager = NoneStr
    THEN [result |-> "SystemExit", scan_type |-> scan, start |-> NoneTs, read |-> FALSE]
    ELSE LET r == get_last_run_timestamp(st) IN
         IF r.kind = "AttributeError"
         THEN [result |-> "AttributeError", scan_type |-> scan, start |-> NoneTs, read |-> TRUE]
         ELSE IF r.ts = NoneTs
         THEN [result |-> "ok", scan_type |-> "24h", start |-> NoneTs, read |-> TRUE]
         ELSE [result |-> "ok", scan_type |-> scan, start |-> r.ts, read |-> TRUE]

-----------------------------------------------------------------------------
(* Initial state *)

NoOutcome == [status |-> NoneTs, raised |-> NoneStr]

\* sys.exit(1), or an exception that leaves run(): main's handler (line 281)
\* turns it into sys.exit(1), and an uncaught exception ends a Python process
\* with status 1 as well.
Ended(exc) == [status |-> 1, raised |-> exc]

\* HyperliquidAPI.__init__, lines 24-40: nothing called, nothing cached
NoApi ==
    /\ call = Nothing
    /\ ended = Nothing
    /\ asset_name_cache = NoCache
    /\ meta_fetches = 0
    /\ resolved = Nothing

\* no call of WalletRecap or generate_wallet_recap has been made
NoUnit ==
    /\ fills = <<>>
    /\ positions = <<>>
    /\ summary = Nothing
    /\ request = Nothing
    /\ recap = Nothing
    /\ NoApi

InitProcess ==
    /\ file \in FileContents
    /\ now = 1
    /\ cfg \in Configs
    /\ pc = "idle"
    /\ entry = NoneStr
    /\ invoked = NoneStr
    /\ scan_type = NoneStr
    /\ state_manager = NoneStr
    /\ sm = NoSM
    /\ start_timestamp_ms = NoneTs
    /\ run_started_at = NoneTs
    /\ calls = <<>>
    /\ outcome = NoOutcome
    /\ ret = NoRet
    /\ lastSaved = NoSave
    /\ trade_counts \in [Wallets -> TradeCounts]
    /\ message = Nothing

Init == InitProcess /\ NoUnit

-----------------------------------------------------------------------------
(* The clock *)

Tick ==
    /\ now < MaxTime
    /\ now' = now + 1
    /\ UNCHANGED <<file, cfg, trade_counts, unitVars, sm, ret, lastSaved>>
    /\ UNCHANGED runVars

-----------------------------------------------------------------------------
(* Runs *)

\* StateManager(path): __init__ and _load_state
NewInstance(f) == [exists |-> TRUE, fresh |-> TRUE, loaded |-> f.kind, state |-> load_state(f)]

\* main(), lines 265-283, invoked with scan type m (parse_arguments).
\* StateManager() is constructed without a path.
Main(m) ==
    /\ pc = "idle"
    /\ entry' = "main"
    /\ invoked' = m
    /\ run_started_at' = now
    /\ IF state_file_path(NoneStr) = "AttributeError"
       THEN /\ pc' = "exited"
            /\ outcome' = Ended("AttributeError")
            /\ UNCHANGED <<scan_type, state_manager, sm>>
       ELSE /\ pc' = "validate"
            /\ scan_type' = m
            /\ state_manager' = "obj"
            /\ sm' = NewInstance(file)
            /\ UNCHANGED outcome
    /\ UNCHANGED <<file, now, cfg, trade_counts, unitVars, start_timestamp_ms, calls, ret, lastSaved>>

\* RecapGenerator(scan_type=m).run(state_manager): the caller passes either a
\* StateManager constructed on an explicit path, or nothing (the default None).
RunCall(m, withManager) ==
    /\ pc = "idle"
    /\ entry' = "run"
    /\ invoked' = m
    /\ scan_type' = m
    /\ run_started_at' = now
    /\ state_manager' = IF withManager THEN "obj" ELSE NoneStr
    /\ sm' = IF withManager THEN NewInstance(file) ELSE NoSM
    /\ pc' = "validate"
    /\ UNCHANGED <<file, now, cfg, trade_counts, unitVars, start_timestamp_ms, calls, outcome, ret, lastSaved>>

\* run(), lines 125-130
ValidateConfig ==
    /\ pc = "validate"
    /\ calls' = Append(calls, "validate_config")
    /\ IF validate_config(cfg)
       THEN pc' = "setup" /\ UNCHANGED outcome
       ELSE pc' = "exited" /\ outcome' = Ended("SystemExit")
    /\ UNCHANGED <<file, now, cfg, trade_counts, unitVars, entry, invoked, scan_type, state_manager, sm,
                   start_timestamp_ms, run_started_at, ret, lastSaved>>

\* run(), lines 132-146
IncrementalSetup ==
    /\ pc = "setup"
    /\ LET r == incremental_setup(scan_type, state_manager, sm.state) IN
       /\ calls' = IF r.read THEN Append(calls, "get_last_run_timestamp") ELSE calls
       /\ scan_type' = r.scan_type
       /\ start_timestamp_ms' = r.start
       /\ IF r.result = "ok"
          THEN pc' = "startup" /\ UNCHANGED outcome
          ELSE pc' = "exited" /\ outcome' = Ended(r.result)
    /\ UNCHANGED <<file, now, cfg, trade_counts, unitVars, entry, invoked, state_manager, sm,
                   run_started_at, ret, lastSaved>>

\* run(), line 149: self.notifier.send_startup_message(self.scan_type).
\* The per-wallet loop and everything after it (lines 151-226) is entered only
\* when this call binds and returns.
SendStartup ==
    /\ pc = "startup"
    /\ calls' = Append(calls, "send_startup_message")
    /\ IF binds("send_startup_message", 1)
       THEN pc' = "process_wallets" /\ UNCHANGED outcome
       ELSE pc' = "exited" /\ outcome' = Ended("TypeError")
    /\ UNCHANGED <<file, now, cfg, trade_counts, unitVars, entry, invoked, scan_type, state_manager, sm,
                   start_timestamp_ms, run_started_at, ret, lastSaved>>

\* the process is gone; the next invocation starts from the state file
NewProcess ==
    /\ pc = "exited"
    /\ pc' = "idle"
    /\ entry' = NoneStr
    /\ invoked' = NoneStr
    /\ scan_type' = NoneStr
    /\ state_manager' = NoneStr
    /\ sm' = NoSM
    /\ start_timestamp_ms' = NoneTs
    /\ run_started_at' = NoneTs
    /\ calls' = <<>>
    /\ outcome' = NoOutcome
    /\ UNCHANGED <<file, now, cfg, trade_counts, unitVars, ret, lastSaved>>

Next ==
    \/ Tick
    \/ \E m \in ScanTypes : Main(m)
    \/ \E m \in ScanTypes, withManager \in BOOLEAN : RunCall(m, withManager)
    \/ ValidateConfig
    \/ IncrementalSetup
    \/ SendStartup
    \/ NewProcess

Spec == Init /\ [][Next]_vars

-----------------------------------------------------------------------------
(* The StateManager API on one state file *)

\* StateManager(path), lines 19-47
NewStateManager ==
    /\ pc = "idle"
    /\ sm' = NewInstance(file)
    /\ ret' = NoRet
    /\ UNCHANGED <<file, now, cfg, trade_counts, unitVars, lastSaved>>
    /\ UNCHANGED runVars

\* StateManager.get_last_run_timestamp, lines 64-76
GetLastRunTimestamp ==
    /\ pc = "idle"
    /\ sm.exists
    /\ ret' = Result("get_last_run_timestamp", get_last_run_timestamp(sm.state))
    /\ UNCHANGED <<file, now, cfg, trade_counts, unitVars, sm, lastSaved>>
    /\ UNCHANGED runVars

\* StateManager.get_last_scan_type, lines 78-90
GetLastScanType ==
    /\ pc = "idle"
    /\ sm.exists
    /\ ret' = Result("get_last_scan_type", get_last_scan_type(sm.state))
    /\ UNCHANGED <<file, now, cfg, trade_counts, unitVars, sm, lastSaved>>
    /\ UNCHANGED runVars

\* StateManager.update_state(scan, timestamp_ms), lines 92-111, with
\* _save_state (lines 49-62) ending as io says. Item assignment on a _state
\* that is not a dict raises TypeError before anything is written.
UpdateState(scan, timestamp_ms, io) ==
    /\ pc = "idle"
    /\ sm.exists
    /\ IF sm.state.isDict
       THEN LET st == update_state(sm.state, scan, timestamp_ms, now) IN
            /\ sm' = [sm EXCEPT !.state = st, !.fresh = FALSE]
            /\ file' = save_state(st, file, io)
            /\ ret' = [op |-> "update_state",
                       kind |-> IF io = "ok" THEN "True" ELSE "False",
                       ts |-> NoneTs, mode |-> NoneStr]
            /\ lastSaved' =
                 CASE io = "ok" -> [ok |-> TRUE, ts |-> stamp(timestamp_ms, now), mode |-> scan]
                   [] io = "open_fails" -> lastSaved
                   [] OTHER -> NoSave
       ELSE /\ ret' = [op |-> "update_state", kind |-> "TypeError",
                       ts |-> NoneTs, mode |-> NoneStr]
            /\ UNCHANGED <<sm, file, lastSaved>>
    /\ UNCHANGED <<now, cfg, trade_counts, unitVars>>
    /\ UNCHANGED runVars

InitStore ==
    /\ Init
    /\ cfg = [TELEGRAM_BOT_TOKEN |-> "123:abc", TELEGRAM_CHAT_ID |-> "-100",
              WALLET_ADDRESSES |-> <<"0xa4">>]
    /\ trade_counts = [w \in Wallets |-> 0]

NextStore ==
    \/ Tick
    \/ NewStateManager
    \/ GetLastRunTimestamp
    \/ GetLastScanType
    \/ \E scan \in ScanTypes, t \in Times \cup {NoneTs}, io \in SaveOutcomes :
          UpdateState(scan, t, io)

SpecStore == InitStore /\ [][NextStore]_vars

-----------------------------------------------------------------------------
(* WalletRecap: src/src/wallet_recap.py *)

\* A field of a raw fill as the exchange sends it: a number (or a string that
\* float() accepts), a string that float() rejects, or no such key.
Num(v) == [t |-> "num", v |-> v]
Bad == [t |-> "bad", v |-> 0]
Absent == [t |-> "absent", v |-> 0]

\* float(fill.get(key, 0))
float_get(x) ==
    CASE x.t = "num" -> [exc |-> NoneStr, v |-> x.v]
      [] x.t = "absent" -> [exc |-> NoneStr, v |-> 0]
      [] OTHER -> [exc |-> "ValueError", v |-> 0]

\* Direction labels are strings, modelled as sequences of characters.
Tokens ==
    { <<"O", "p", "e", "n">>, <<"O", "P", "E", "N">>,
      <<"C", "l", "o", "s", "e">>, <<"C", "L", "O", "S", "E">>,
      <<" ", "L", "o", "n", "g">>, <<"S", "e", "l", "l">>,
      <<"O", "p">>, <<"e", "n">>, <<"c", "l", "o">>, <<"s", "e">> }

RECURSIVE Labels(_)
Labels(n) ==
    IF n = 0 THEN {<<>>}
    ELSE Labels(n - 1) \cup {l \o t : l \in Labels(n - 1), t \in Tokens}

\* str.lower() on the characters the labels are made of
LowerChar(c) ==
    CASE c = "O" -> "o" [] c = "P" -> "p" [] c = "E" -> "e" [] c = "N" -> "n"
      [] c = "C" -> "c" [] c = "L" -> "l" [] c = "S" -> "s" [] OTHER -> c

lower(str) == [i \in 1..Len(str) |-> LowerChar(str[i])]

\* sub in str
Contains(str, sub) ==
    \E i \in 1..(Len(str) - Len(sub) + 1) : SubSeq(str, i, i + Len(sub) - 1) = sub

Abs(x) == IF x < 0 THEN -x ELSE x

TradeTypes == {"OPEN", "CLOSE", "INCREASE", "REDUCE"}

\* the label is compared as it is, without lower()
determine_trade_type_mut(direction, start_position, size) ==
    IF Contains(direction, <<"o", "p", "e", "n">>) THEN "OPEN"
    ELSE IF Contains(direction, <<"c", "l", "o", "s", "e">>) THEN "CLOSE"
    ELSE IF start_position = 0 THEN "OPEN"
    ELSE IF Abs(start_position + size) < Abs(start_position) THEN "REDUCE"
    ELSE IF Abs(start_position + size) > Abs(start_position) THEN "INCREASE"
    ELSE "CLOSE"

\* WalletRecap._determine_trade_type, lines 144-171
determine_trade_type(direction, start_position, size) ==
    LET direction_lower == lower(direction) IN
    IF Contains(direction_lower, <<"o", "p", "e", "n">>) THEN "OPEN"
    ELSE IF Contains(direction_lower, <<"c", "l", "o", "s", "e">>) THEN "CLOSE"
    ELSE IF start_position = 0 THEN "OPEN"
    ELSE IF Abs(start_position + size) < Abs(start_position) THEN "REDUCE"
    ELSE IF Abs(start_position + size) > Abs(start_position) THEN "INCREASE"
    ELSE "CLOSE"

\* strftime("%H:%M UTC") of a millisecond timestamp: the minute of the day
time_str(timestamp) == (timestamp \div 60000) % 1440

\* _format_trades, lines 93-137: the body of the loop for one fill. A float()
\* that fails raises ValueError, which the loop catches (the fill is skipped);
\* a "time" that is not a number makes timestamp / 1000 raise TypeError, which
\* the loop does not catch.
format_trade(f) ==
    LET price == float_get(f.px)
        size == float_get(f.sz)
        closed_pnl == float_get(f.closedPnl)
        start_position == float_get(f.startPosition)
        timestamp == IF f.time.t = "absent" THEN 0 ELSE f.time.v
    IN  IF \E r \in {price, size, closed_pnl, start_position} : r.exc # NoneStr
        THEN [kind |-> "skip", exc |-> "ValueError"]
        ELSE IF f.time.t = "bad"
        THEN [kind |-> "raise", exc |-> "TypeError"]
        ELSE [kind |-> "trade", exc |-> NoneStr,
              trade |-> [asset |-> f.coin,
                         type |-> determine_trade_type(f.dir, start_position.v, size.v),
                         direction |-> f.dir,
                         side |-> f.side,
                         price |-> price.v,
                         size |-> Abs(size.v),
                         value |-> price.v * Abs(size.v),
                         pnl |-> closed_pnl.v,
                         time |-> time_str(timestamp),
                         timestamp |-> timestamp]]

\* the trades stay in the order of the fills
RECURSIVE sort_trades_mut(_)
sort_trades_mut(ts) == ts

\* list.sort(key=timestamp, reverse=True): stable, most recent first
RECURSIVE sort_trades(_)
sort_trades(ts) ==
    IF ts = <<>> THEN <<>>
    ELSE LET rest == sort_trades(Tail(ts))
             k == Cardinality({i \in 1..Len(rest) : rest[i].timestamp > Head(ts).timestamp})
         IN  SubSeq(rest, 1, k) \o <<Head(ts)>> \o SubSeq(rest, k + 1, Len(rest))

RECURSIVE collect_trades(_)
collect_trades(fs) ==
    IF fs = <<>> THEN [exc |-> NoneStr, trades |-> <<>>]
    ELSE LET r == format_trade(Head(fs)) IN
         IF r.kind = "raise" THEN [exc |-> r.exc, trades |-> <<>>]
         ELSE LET rest == collect_trades(Tail(fs)) IN
              IF rest.exc # NoneStr THEN rest
              ELSE [exc |-> NoneStr,
                    trades |-> IF r.kind = "skip" THEN rest.trades
                               ELSE <<r.trade>> \o rest.trades]

\* WalletRecap._format_trades, lines 83-142
format_trades(fs) ==
    LET r == collect_trades(fs) IN
    IF r.exc # NoneStr THEN r ELSE [exc |-> NoneStr, trades |-> sort_trades(r.trades)]

\* the first position is left out
RECURSIVE calculate_overall_pnl_mut(_)
calculate_overall_pnl_mut(ps) ==
    IF Len(ps) <= 1 THEN 0
    ELSE ps[2].unrealized_pnl + calculate_overall_pnl_mut(Tail(ps))

\* WalletRecap._calculate_overall_pnl, lines 63-68
RECURSIVE calculate_overall_pnl(_)
calculate_overall_pnl(ps) ==
    IF ps = <<>> THEN 0 ELSE Head(ps).unrealized_pnl + calculate_overall_pnl(Tail(ps))

\* the magnitudes are summed
RECURSIVE calculate_daily_pnl_mut(_)
calculate_daily_pnl_mut(fs) ==
    IF fs = <<>> THEN [exc |-> NoneStr, v |-> 0]
    ELSE LET closed_pnl == float_get(Head(fs).closedPnl) IN
         IF closed_pnl.exc # NoneStr THEN closed_pnl
         ELSE LET rest == calculate_daily_pnl_mut(Tail(fs)) IN
              IF rest.exc # NoneStr THEN rest
              ELSE [exc |-> NoneStr, v |-> Abs(closed_pnl.v) + rest.v]

\* WalletRecap._calculate_daily_pnl, lines 70-81: no float() is guarded
RECURSIVE calculate_daily_pnl(_)
calculate_daily_pnl(fs) ==
    IF fs = <<>> THEN [exc |-> NoneStr, v |-> 0]
    ELSE LET closed_pnl == float_get(Head(fs).closedPnl) IN
         IF closed_pnl.exc # NoneStr THEN closed_pnl
         ELSE LET rest == calculate_daily_pnl(Tail(fs)) IN
              IF rest.exc # NoneStr THEN rest
              ELSE [exc |-> NoneStr, v |-> closed_pnl.v + rest.v]

\* WalletRecap(wallet, ps, fs).build_summary(), lines 31-61
build_summary(wallet, ps, fs) ==
    LET overall_pnl == calculate_overall_pnl(ps)
        daily_pnl == calculate_daily_pnl(fs)
        trade_count == Len(fs)
        trades == format_trades(fs)
    IN  IF daily_pnl.exc # NoneStr THEN [kind |-> "raise", exc |-> daily_pnl.exc]
        ELSE IF trades.exc # NoneStr THEN [kind |-> "raise", exc |-> trades.exc]
        ELSE [kind |-> "summary",
              wallet |-> wallet,
              overall_pnl |-> overall_pnl,
              daily_pnl |-> daily_pnl.v,
              trade_count |-> trade_count,
              trades |-> trades.trades,
              has_activity |-> trade_count > 0,
              position_count |-> Len(ps)]

OpenLong == <<"O", "p", "e", "n">> \o <<" ", "L", "o", "n", "g">>

\* fills that differ in what the classification reads
ClassifyFills ==
    [coin : {"BTC"}, dir : Labels(MaxTokens), side : {"B", "A"},
     px : {Num(1)}, sz : {Num(v) : v \in 0..MaxSize},
     closedPnl : {Num(0)}, time : {Num(1)},
     startPosition : {Num(v) : v \in (-MaxSize)..MaxSize}]

\* fills that differ in what the parsing, the P&L sum and the ordering read
RecapFills ==
    [coin : {"BTC"}, dir : {OpenLong}, side : {"B"},
     px : {Num(1), Bad}, sz : {Num(1)},
     closedPnl : {Num(-1), Num(2), Absent, Bad}, time : {Num(1), Num(2), Bad},
     startPosition : {Num(0)}]

FillLists(n) == UNION {[1..k -> RecapFills] : k \in 0..n}

\* parsed positions (the output of HyperliquidAPI.parse_positions)
Positions == [size : {1}, unrealized_pnl : {-1, 2}]

PositionLists(n) == UNION {[1..k -> Positions] : k \in 0..n}

ValidConfig ==
    [TELEGRAM_BOT_TOKEN |-> "123:abc", TELEGRAM_CHAT_ID |-> "-100",
     WALLET_ADDRESSES |-> <<"0xa4">>]

\* a process in which no run is under way
InitUnit ==
    /\ InitProcess
    /\ file.kind = "missing"
    /\ cfg = ValidConfig
    /\ trade_counts = [w \in Wallets |-> 0]

InitClassify ==
    /\ InitUnit
    /\ fills \in {<<f>> : f \in ClassifyFills}
    /\ positions = <<>>
    /\ summary = Nothing
    /\ request = Nothing
    /\ recap = Nothing
    /\ NoApi

InitRecap ==
    /\ InitUnit
    /\ fills \in FillLists(MaxFills)
    /\ positions \in PositionLists(MaxPositions)
    /\ summary = Nothing
    /\ request = Nothing
    /\ recap = Nothing
    /\ NoApi

\* WalletRecap(wallet, positions, fills).build_summary()
BuildSummary ==
    /\ pc = "idle"
    /\ summary = Nothing
    /\ request = Nothing
    /\ summary' = build_summary(cfg.WALLET_ADDRESSES[1], positions, fills)
    /\ UNCHANGED <<file, now, cfg, sm, ret, lastSaved, trade_counts,
                   fills, positions, request, recap>>
    /\ UNCHANGED apiVars
    /\ UNCHANGED message
    /\ UNCHANGED runVars

NextRecap == BuildSummary

SpecClassify == InitClassify /\ [][NextRecap]_vars

SpecRecap == InitRecap /\ [][NextRecap]_vars

-----------------------------------------------------------------------------
(* HyperliquidAPI and RecapGenerator.generate_wallet_recap *)

\* src/config.py, lines 64-65: the defaults
MAX_RETRIES == 3
RETRY_DELAY == 5

\* timedelta(hours=24) in milliseconds
DAY_MS == 86400000

\* the methods class HyperliquidAPI defines
ApiMethods ==
    {"__init__", "_retry_wrapper", "get_user_state", "get_meta_info",
     "parse_positions", "get_positions", "get_user_fills_24h",
     "get_user_portfolio", "get_account_value", "get_asset_name_mapping",
     "resolve_asset_name", "_format_address"}

\* how often the SDK call of one fetch fails before it succeeds
Failures == 0..(MAX_RETRIES + 1)

\* the backoff grows linearly
wait_time_mut(retry_delay, retry_count) == retry_delay * (retry_count + 1)

\* line 69: wait_time = self.retry_delay * (2 ** retry_count)
wait_time(retry_delay, retry_count) == retry_delay * 2 ^ retry_count

\* the last attempt of the range is not made
RECURSIVE retry_loop_mut(_, _, _, _, _)
retry_loop_mut(outcomes, max_retries, retry_delay, retry_count, waits) ==
    IF retry_count >= max_retries
    THEN [exc |-> "HyperliquidAPIError", value |-> 0, attempts |-> retry_count, waits |-> waits]
    ELSE IF outcomes[retry_count + 1]
    THEN [exc |-> NoneStr, value |-> retry_count + 1, attempts |-> retry_count + 1, waits |-> waits]
    ELSE retry_loop_mut(outcomes, max_retries, retry_delay, retry_count + 1,
                        Append(waits, wait_time(retry_delay, retry_count)))

\* _retry_wrapper, lines 57-75: the loop from retry_count on. outcomes[i] says
\* whether the i-th call of func returns (TRUE) or raises; the value the i-th
\* call returns is i. The result holds the calls made and the waits slept.
RECURSIVE retry_loop(_, _, _, _, _)
retry_loop(outcomes, max_retries, retry_delay, retry_count, waits) ==
    IF retry_count > max_retries
    THEN [exc |-> "HyperliquidAPIError", value |-> 0, attempts |-> retry_count, waits |-> waits]
    ELSE IF outcomes[retry_count + 1]
    THEN [exc |-> NoneStr, value |-> retry_count + 1, attempts |-> retry_count + 1, waits |-> waits]
    ELSE retry_loop(outcomes, max_retries, retry_delay, retry_count + 1,
                    IF retry_count < max_retries
                    THEN Append(waits, wait_time(retry_delay, retry_count))
                    ELSE waits)

RECURSIVE SeqSum(_)
SeqSum(xs) == IF xs = <<>> THEN 0 ELSE Head(xs) + SeqSum(Tail(xs))

\* _retry_wrapper, lines 42-75, with the configured ceiling and delay, for an
\* SDK call that fails `failures` times and then returns `result`: attempts
\* made, seconds slept, outcome
retry_wrapper(failures, result) ==
    LET r == retry_loop([i \in 1..(MAX_RETRIES + 1) |-> i > failures],
                        MAX_RETRIES, RETRY_DELAY, 0, <<>>)
    IN  [exc |-> r.exc, value |-> IF r.exc = NoneStr THEN result ELSE <<>>,
         attempts |-> r.attempts, slept |-> SeqSum(r.waits)]

\* calls of the wrapper: a ceiling up to the configured one, a delay, and an
\* outcome for each attempt the ceiling allows
RetryCalls ==
    UNION {[kind : {"retry"}, max_retries : {m}, retry_delay : {0, 1, RETRY_DELAY},
            outcomes : [1..(m + 1) -> BOOLEAN]] : m \in 0..MAX_RETRIES}

InitRetry ==
    /\ InitUnit
    /\ fills = <<>>
    /\ positions = <<>>
    /\ summary = Nothing
    /\ request = Nothing
    /\ recap = Nothing
    /\ call \in RetryCalls
    /\ ended = Nothing
    /\ asset_name_cache = NoCache
    /\ meta_fetches = 0
    /\ resolved = Nothing

\* self._retry_wrapper(func, ...)
RetryWrapper ==
    /\ pc = "idle"
    /\ call # Nothing
    /\ ended = Nothing
    /\ ended' = retry_loop(call.outcomes, call.max_retries, call.retry_delay, 0, <<>>)
    /\ UNCHANGED <<file, now, cfg, sm, ret, lastSaved, trade_counts,
                   fills, positions, summary, request, recap,
                   call, asset_name_cache, meta_fetches, resolved, message>>
    /\ UNCHANGED runVars

NextRetry == RetryWrapper

SpecRetry == InitRetry /\ [][NextRetry]_vars

\* get_user_state, lines 77-96: the raw asset positions, or None
get_user_state(failures, user_state) ==
    LET r == retry_wrapper(failures, user_state) IN
    IF r.exc = NoneStr THEN [kind |-> "dict", assetPositions |-> r.value] ELSE Nothing

\* entries without a size are kept
RECURSIVE parse_positions_mut(_)
parse_positions_mut(asset_positions) ==
    IF asset_positions = <<>> THEN <<>>
    ELSE LET szi == float_get(Head(asset_positions).szi)
             unrealized_pnl == float_get(Head(asset_positions).unrealizedPnl)
             rest == parse_positions_mut(Tail(asset_positions))
         IN  IF szi.exc # NoneStr \/ unrealized_pnl.exc # NoneStr
             THEN rest
             ELSE <<[size |-> Abs(szi.v), unrealized_pnl |-> unrealized_pnl.v]>> \o rest

\* parse_positions, lines 131-183: entries without a size, and entries whose
\* numbers do not parse, are left out
RECURSIVE parse_positions(_)
parse_positions(asset_positions) ==
    IF asset_positions = <<>> THEN <<>>
    ELSE LET szi == float_get(Head(asset_positions).szi)
             unrealized_pnl == float_get(Head(asset_positions).unrealizedPnl)
             rest == parse_positions(Tail(asset_positions))
         IN  IF szi.exc # NoneStr \/ unrealized_pnl.exc # NoneStr \/ szi.v = 0
             THEN rest
             ELSE <<[size |-> Abs(szi.v), unrealized_pnl |-> unrealized_pnl.v]>> \o rest

\* get_positions, lines 185-203
get_positions(failures, user_state) ==
    LET state == get_user_state(failures, user_state) IN
    IF state = Nothing THEN <<>> ELSE parse_positions(state.assetPositions)

\* get_user_fills_24h, lines 205-235, called at time clock
get_user_fills_24h(failures, upstream_fills, clock) ==
    LET start_time == clock - DAY_MS
        r == retry_wrapper(failures, upstream_fills)
    IN  [since |-> start_time, fills |-> IF r.exc = NoneStr THEN r.value ELSE <<>>]

\* the fetch generate_wallet_recap looks up on self.api for a scan type
fills_fetch(scan) ==
    CASE scan = "24h" -> "get_user_fills_24h"
      [] scan = "1h" -> "get_user_fills_1h"
      [] scan = "incremental" -> "get_user_fills_since"
      [] OTHER -> NoneStr

ReturnsNone(exc) ==
    [kind |-> "None", exc |-> exc, since |-> NoneTs, summary |-> Nothing,
     scan_type |-> NoneStr]

\* RecapGenerator(scan).generate_wallet_recap(wallet, start), lines 61-108,
\* against an exchange that answers as req says. Every exception is caught
\* and turned into None (lines 103-108).
generate_wallet_recap(scan, wallet, start, req, clock) ==
    LET ps == get_positions(req.state_failures, req.user_state) IN
    IF fills_fetch(scan) = NoneStr THEN ReturnsNone(NoneStr)
    ELSE IF scan = "incremental" /\ start = NoneTs THEN ReturnsNone(NoneStr)
    ELSE IF fills_fetch(scan) \notin ApiMethods THEN ReturnsNone("AttributeError")
    ELSE LET fetched == get_user_fills_24h(req.fills_failures, req.fills, clock)
             built == build_summary(wallet, ps, fetched.fills)
         IN  IF built.kind = "raise" THEN ReturnsNone(built.exc)
             ELSE [kind |-> "summary", exc |-> NoneStr, since |-> fetched.since,
                   summary |-> built, scan_type |-> scan]

\* what the exchange holds: raw asset positions and well-formed fills
RawPositions == [szi : {Num(0), Num(-1), Bad}, unrealizedPnl : {Num(2)}]

UserStates(n) == UNION {[1..k -> RawPositions] : k \in 0..n}

GenFills ==
    [coin : {"BTC"}, dir : {OpenLong}, side : {"B"}, px : {Num(1)}, sz : {Num(1)},
     closedPnl : {Num(2), Absent}, time : {Num(1)}, startPosition : {Num(0)}]

Requests ==
    [kind : {"request"},
     scan_type : ScanTypes,
     start_timestamp_ms : Times \cup {NoneTs},
     state_failures : Failures,
     fills_failures : Failures,
     user_state : UserStates(MaxPositions),
     fills : UNION {[1..k -> GenFills] : k \in 0..MaxFills}]

InitGen ==
    /\ InitUnit
    /\ fills = <<>>
    /\ positions = <<>>
    /\ summary = Nothing
    /\ request \in Requests
    /\ recap = Nothing
    /\ NoApi

GenerateWalletRecap ==
    /\ pc = "idle"
    /\ request # Nothing
    /\ recap = Nothing
    /\ recap' = generate_wallet_recap(request.scan_type, cfg.WALLET_ADDRESSES[1],
                                      request.start_timestamp_ms, request, now)
    /\ UNCHANGED <<file, now, cfg, sm, ret, lastSaved, trade_counts,
                   fills, positions, summary, request>>
    /\ UNCHANGED apiVars
    /\ UNCHANGED message
    /\ UNCHANGED runVars

NextGen == GenerateWalletRecap

SpecGen == InitGen /\ [][NextGen]_vars

-----------------------------------------------------------------------------
(* HyperliquidAPI: the asset-name cache *)

BTC == <<"B", "T", "C">>
ETH == <<"E", "T", "H">>
Digits == <<"0", "1", "2", "3", "4">>

\* f"@{i}"
index_key(i) == <<"@", Digits[i + 1]>>

\* asset ids handed to resolve_asset_name: index form, a ticker, a bare
\* number, the empty string
AssetIds == {index_key(0), index_key(1), index_key(2), BTC, <<"1">>, <<>>}

\* asset_id.startswith("@")
startswith_at(asset_id) == Len(asset_id) >= 1 /\ asset_id[1] = "@"

\* entries of meta["universe"]: a dict with a name, a dict without, not a dict
Assets == {[kind |-> "dict", name |-> BTC], [kind |-> "dict", name |-> ETH],
           [kind |-> "dict", name |-> <<>>], [kind |-> "other", name |-> <<>>]}

RECURSIVE Universes(_)
Universes(n) ==
    IF n = 0 THEN {<<>>}
    ELSE LET shorter == Universes(n - 1)
         IN  shorter \cup {Append(u, a) : u \in shorter, a \in Assets}

\* get_meta_info, lines 98-114: None when the retries are exhausted, else
\* what info.meta() answered: {}, a dict without "universe", a dict with one
MetaAnswers ==
    {[kind |-> "None", universe |-> <<>>], [kind |-> "empty", universe |-> <<>>],
     [kind |-> "no_universe", universe |-> <<>>]}
    \cup {[kind |-> "meta", universe |-> u] : u \in Universes(MaxUniverse)}

\* lines 315-319: the mapping as the sequence of names, entry i + 1 for "@i";
\* asset.get("name", f"@{i}")
build_mapping(universe) ==
    [k \in 1..Len(universe) |->
        IF universe[k].name = <<>> THEN index_key(k - 1) ELSE universe[k].name]

\* get_asset_name_mapping, lines 298-328, with the cache as it is and meta the
\* answer get_meta_info gives if it is called: the mapping returned, the
\* cache afterwards, whether the metadata was fetched
get_asset_name_mapping(cache, meta) ==
    IF cache.cached
    THEN [mapping |-> cache.names, cache |-> cache, fetched |-> FALSE]
    ELSE IF meta.kind # "meta" \/ \E k \in 1..Len(meta.universe) : meta.universe[k].kind # "dict"
    THEN [mapping |-> <<>>, cache |-> cache, fetched |-> TRUE]
    ELSE [mapping |-> build_mapping(meta.universe),
          cache |-> [cached |-> TRUE, names |-> build_mapping(meta.universe)],
          fetched |-> TRUE]

\* mapping.get(asset_id, asset_id)
mapping_get(mapping, asset_id) ==
    IF \E k \in 1..Len(mapping) : index_key(k - 1) = asset_id
    THEN mapping[CHOOSE k \in 1..Len(mapping) : index_key(k - 1) = asset_id]
    ELSE asset_id

\* resolve_asset_name, lines 330-344
resolve_asset_name(cache, meta, asset_id) ==
    IF ~startswith_at(asset_id)
    THEN [name |-> asset_id, cache |-> cache, fetched |-> FALSE]
    ELSE LET m == get_asset_name_mapping(cache, meta)
         IN  [name |-> mapping_get(m.mapping, asset_id), cache |-> m.cache,
              fetched |-> m.fetched]

InitCache ==
    /\ InitUnit
    /\ fills = <<>>
    /\ positions = <<>>
    /\ summary = Nothing
    /\ request = Nothing
    /\ recap = Nothing
    /\ NoApi

\* self.api_client.resolve_asset_name(asset_id), the metadata endpoint
\* answering meta if it is asked
ResolveAssetName(asset_id, meta) ==
    /\ pc = "idle"
    /\ call = Nothing
    /\ meta_fetches < MaxFetches
    /\ LET r == resolve_asset_name(asset_name_cache, meta, asset_id)
       IN  /\ asset_name_cache' = r.cache
           /\ meta_fetches' = IF r.fetched THEN meta_fetches + 1 ELSE meta_fetches
           /\ resolved' = [asset_id |-> asset_id, name |-> r.name, fetched |-> r.fetched]
    /\ UNCHANGED <<file, now, cfg, sm, ret, lastSaved, trade_counts,
                   fills, positions, summary, request, recap, call, ended, message>>
    /\ UNCHANGED runVars

NextCache == \E asset_id \in AssetIds, meta \in MetaAnswers : ResolveAssetName(asset_id, meta)

SpecCache == InitCache /\ [][NextCache]_vars

-----------------------------------------------------------------------------
(* RecapNotifier: src/src/recap_notifier.py *)

\* recap_notifier.py, line 118
MAX_TRADES == 20

Min(a, b) == IF a < b THEN a ELSE b

\* RecapNotifier._format_trade, lines 147-213: the line of one trade
notifier_format_trade(trade) ==
    LET is_long == Contains(lower(trade.direction), <<"l", "o", "n", "g">>)
        action == CASE trade.type = "OPEN" -> IF is_long THEN "OPEN LONG" ELSE "OPEN SHORT"
                    [] trade.type = "CLOSE" -> IF is_long THEN "CLOSE LONG" ELSE "CLOSE SHORT"
                    [] trade.type = "INCREASE" -> IF is_long THEN "ADD LONG" ELSE "ADD SHORT"
                    [] trade.type = "REDUCE" -> IF is_long THEN "REDUCE LONG" ELSE "REDUCE SHORT"
                    [] OTHER -> trade.type
    IN  [kind |-> "trade", asset |-> trade.asset, action |-> action,
         value |-> trade.value, price |-> trade.price,
         pnl_shown |-> trade.pnl # 0, pnl |-> trade.pnl, time |-> trade.time]

\* the lines of trades[:MAX_TRADES]
trade_lines(trades, limit) ==
    [i \in 1..Min(Len(trades), limit) |-> notifier_format_trade(trades[i])]

\* the list is cut one entry late and the note is off by one
format_recap_message_mut(s, clock) ==
    <<[kind |-> "title", wallet |-> s.wallet],
      [kind |-> "timestamp", at |-> clock],
      [kind |-> "blank"],
      [kind |-> "overall", positive |-> s.overall_pnl >= 0, pnl |-> s.overall_pnl],
      [kind |-> "window", positive |-> s.daily_pnl >= 0, pnl |-> s.daily_pnl],
      [kind |-> "counts", trades |-> s.trade_count, positions |-> s.position_count]>>
    \o IF s.trades # <<>>
       THEN <<[kind |-> "blank"]>>
            \o (IF Len(s.trades) > MAX_TRADES + 1
                THEN <<[kind |-> "latest", shown |-> MAX_TRADES, total |-> s.trade_count]>>
                ELSE <<[kind |-> "all"]>>)
            \o <<[kind |-> "blank"]>>
            \o trade_lines(s.trades, MAX_TRADES + 1)
            \o (IF Len(s.trades) > MAX_TRADES + 1
                THEN <<[kind |-> "blank"],
                       [kind |-> "more", remaining |-> Len(s.trades) - MAX_TRADES - 1]>>
                ELSE <<>>)
       ELSE <<[kind |-> "blank"], [kind |-> "no_trades"]>>

\* RecapNotifier._format_recap_message, lines 74-145: the lines of the message,
\* joined by newlines, for a summary rendered at time clock
format_recap_message(s, clock) ==
    <<[kind |-> "title", wallet |-> s.wallet],
      [kind |-> "timestamp", at |-> clock],
      [kind |-> "blank"],
      [kind |-> "overall", positive |-> s.overall_pnl >= 0, pnl |-> s.overall_pnl],
      [kind |-> "window", positive |-> s.daily_pnl >= 0, pnl |-> s.daily_pnl],
      [kind |-> "counts", trades |-> s.trade_count, positions |-> s.position_count]>>
    \o IF s.trades # <<>>
       THEN <<[kind |-> "blank"]>>
            \o (IF Len(s.trades) > MAX_TRADES
                THEN <<[kind |-> "latest", shown |-> MAX_TRADES, total |-> s.trade_count]>>
                ELSE <<[kind |-> "all"]>>)
            \o <<[kind |-> "blank"]>>
            \o trade_lines(s.trades, MAX_TRADES)
            \o (IF Len(s.trades) > MAX_TRADES
                THEN <<[kind |-> "blank"],
                       [kind |-> "more", remaining |-> Len(s.trades) - MAX_TRADES]>>
                ELSE <<>>)
       ELSE <<[kind |-> "blank"], [kind |-> "no_trades"]>>

\* a well-formed fill made at minute m
RenderFill(m) ==
    [coin |-> "BTC", dir |-> OpenLong, side |-> "B", px |-> Num(1), sz |-> Num(1),
     closedPnl |-> Num(2), time |-> Num(60000 * m), startPosition |-> Num(0)]

\* a fill whose price does not parse: _format_trades leaves it out
UnpricedFill ==
    [coin |-> "BTC", dir |-> OpenLong, side |-> "B", px |-> Bad, sz |-> Num(1),
     closedPnl |-> Num(2), time |-> Num(60000), startPosition |-> Num(0)]

\* fill lists of up to MaxListed well-formed fills, the first k made at one
\* minute and the others at another, with or without an unpriced fill in front
RenderFillLists ==
    {lead \o [i \in 1..n |-> RenderFill(IF i <= k THEN early ELSE 3 - early)] :
        lead \in {<<>>, <<UnpricedFill>>}, early \in {1, 2},
        n \in 0..MaxListed, k \in 0..MaxListed}

InitRender ==
    /\ InitUnit
    /\ fills \in RenderFillLists
    /\ positions = <<>>
    /\ summary = Nothing
    /\ request = Nothing
    /\ recap = Nothing
    /\ NoApi

\* self.notifier.send_wallet_recap(summary), line 72: the message handed to
\* send_message
FormatRecapMessage ==
    /\ pc = "idle"
    /\ summary # Nothing
    /\ summary.kind = "summary"
    /\ message = Nothing
    /\ message' = format_recap_message(summary, now)
    /\ UNCHANGED <<file, now, cfg, sm, ret, lastSaved, trade_counts,
                   fills, positions, summary, request, recap>>
    /\ UNCHANGED apiVars
    /\ UNCHANGED runVars

NextRender ==
    \/ BuildSummary
    \/ FormatRecapMessage

SpecRender == InitRender /\ [][NextRender]_vars

-----------------------------------------------------------------------------
(* Claims *)

Count(seq, x) == Cardinality({i \in 1..Len(seq) : seq[i] = x})

\* the three reasons the specification gives for a configuration error
ConfigInvalid ==
    \/ Falsy(cfg.TELEGRAM_BOT_TOKEN)
    \/ Falsy(cfg.TELEGRAM_CHAT_ID)
    \/ cfg.WALLET_ADDRESSES = <<>>

\* a run that was handed a state manager (main always hands one over) and ended
EndedRun ==
    /\ pc = "exited"
    /\ ~ConfigInvalid
    /\ entry = "main" \/ state_manager = "obj"

\* a call of run() that ended, with a state manager whose file held a record
\* or nothing usable (not JSON of another shape, the case of C8)
EndedRunCall == EndedRun /\ entry = "run" /\ sm.state.isDict

\* C1: in every run whose configuration validates, in any mode, the checkpoint
\* is saved exactly once, and only after every wallet of the list has been
\* attempted.
C1_CheckpointSavedOnceAfterAllWallets ==
    EndedRun =>
        /\ Count(calls, "update_state") = 1
        /\ Len(calls) > 0 /\ calls[Len(calls)] = "update_state"
        /\ Count(calls, "generate_wallet_recap") = Len(cfg.WALLET_ADDRESSES)

\* C4: the timestamp the checkpoint holds at the end of a run is the run's
\* start time, captured before the first wallet is processed.
C4_CheckpointHoldsRunStart ==
    EndedRunCall => (file.kind = "object" /\ file.ts = run_started_at)

\* C5: if configuration validation fails (bot credential missing, chat id
\* missing or wallet list empty) the run ends with a non-zero status having
\* made no call besides the validation itself: no fetch, no dispatch, no
\* wallet processed, no checkpoint written.
C5_InvalidConfigEndsBeforeAnyIO ==
    ConfigInvalid =>
        /\ pc \in {"idle", "validate", "exited"}
        /\ \A i \in 1..Len(calls) : calls[i] = "validate_config"
        /\ pc = "exited" => outcome.status = 1

C5_Witness ==
    /\ pc = "exited"
    /\ entry = "run"
    /\ cfg.WALLET_ADDRESSES = <<>>
    /\ ~Falsy(cfg.TELEGRAM_BOT_TOKEN)
    /\ ~Falsy(cfg.TELEGRAM_CHAT_ID)
    /\ outcome = Ended("SystemExit")
    /\ calls = <<"validate_config">>

\* C6: an incremental run that finds no checkpoint scans every wallet with the
\* trailing 24h window and still writes a checkpoint at its end.
C6_FallbackScansEveryWalletAndSaves ==
    (EndedRunCall /\ invoked = "incremental"
        /\ get_last_run_timestamp(sm.state) = [kind |-> "value", ts |-> NoneTs, mode |-> NoneStr])
    =>  /\ scan_type = "24h"
        /\ Count(calls, "get_user_fills_24h") = Len(cfg.WALLET_ADDRESSES)
        /\ Count(calls, "update_state") = 1

\* C7: saving (t, m) and then loading in a fresh store instance on the same
\* path yields last_run_timestamp = t and last_scan_type = m, whatever was
\* stored before.
C7_CheckpointRoundTrip ==
    (sm.exists /\ sm.fresh /\ lastSaved.ok) =>
        /\ ret.op = "get_last_run_timestamp" =>
              (ret.kind = "value" /\ ret.ts = lastSaved.ts)
        /\ ret.op = "get_last_scan_type" =>
              (ret.kind = "value" /\ ret.mode = lastSaved.mode)

C7_Witness ==
    /\ sm.exists /\ sm.fresh /\ lastSaved.ok
    /\ ret.op = "get_last_run_timestamp"
    /\ ret.ts = lastSaved.ts
    /\ lastSaved.ts # now
    /\ lastSaved.mode = "1h"

\* C8: for every content of the state file that is not the expected record
\* (missing, unreadable, not valid JSON, valid JSON of another shape) the
\* store loads as 'absent', and neither the construction nor a later read or
\* update raises.
C8_LoadIsAbsentAndNeverFails ==
    /\ (sm.exists /\ sm.fresh /\ sm.loaded \in {"missing", "unreadable", "invalid", "array"})
          => get_last_run_timestamp(sm.state) = [kind |-> "value", ts |-> NoneTs, mode |-> NoneStr]
    /\ ret.kind \notin {"AttributeError", "TypeError"}

\* C10: a failure while processing one wallet never prevents a later wallet
\* from being attempted: by the end of a run every position of the wallet
\* list has had its recap generation called.
C10_EveryWalletIsAttempted ==
    EndedRunCall =>
        \A i \in 1..Len(cfg.WALLET_ADDRESSES) :
            Count(calls, "generate_wallet_recap") >= i

\* positions of the wallet list whose wallet has more fills than the bot
\* threshold, and those whose count lies between the floor and the threshold
BotWallets ==
    {i \in 1..Len(cfg.WALLET_ADDRESSES) :
        trade_counts[cfg.WALLET_ADDRESSES[i]] > MAX_TRADES_PER_DAY}

HumanWallets ==
    {i \in 1..Len(cfg.WALLET_ADDRESSES) :
        /\ trade_counts[cfg.WALLET_ADDRESSES[i]] >= MIN_TRADES_PER_DAY
        /\ trade_counts[cfg.WALLET_ADDRESSES[i]] <= MAX_TRADES_PER_DAY}

\* C11: a wallet whose trade count is strictly greater than the bot threshold
\* is placed in the bot bucket (and only such a wallet): by the end of a 24h
\* run the bucket has received exactly the wallets above the threshold.
C11_BotWalletsGoToTheBotBucket ==
    (EndedRunCall /\ invoked = "24h") =>
        Count(calls, "bot_traders.append") = Cardinality(BotWallets)

\* C12: a wallet gets an individual recap dispatch if and only if its trade
\* count lies between the activity floor and the bot threshold: by the end of
\* a 24h run exactly those wallets have had their recap dispatched.
C12_ActiveHumanWalletsGetARecap ==
    (EndedRunCall /\ invoked = "24h") =>
        Count(calls, "send_wallet_recap") = Cardinality(HumanWallets)

\* C14: in every run with valid configuration exactly one startup message is
\* dispatched (the call is made once and goes through) and exactly one
\* completion message is dispatched.
C14_OneStartupAndOneCompletionMessage ==
    EndedRunCall =>
        /\ Count(calls, "send_startup_message") = 1
        /\ outcome.raised # "TypeError"
        /\ Count(calls, "send_completion_message") = 1

\* the label contains the word, in any letter case
HasWord(label, word) ==
    \E i \in 1..Len(label) :
        /\ i + Len(word) - 1 <= Len(label)
        /\ \A k \in 1..Len(word) : LowerChar(label[i + k - 1]) = word[k]

WordOpen == <<"o", "p", "e", "n">>
WordClose == <<"c", "l", "o", "s", "e">>

\* a summary was built from exactly one fill, which became one trade
OneTrade ==
    /\ summary.kind = "summary"
    /\ Len(fills) = 1
    /\ Len(summary.trades) = 1

\* C17: classification is total: every fill with a direction label, a start
\* position and a size gets exactly one of OPEN, INCREASE, REDUCE, CLOSE; a
\* label containing "open" in any letter case gives OPEN, and otherwise a
\* label containing "close" gives CLOSE, whatever the position delta says.
C17_LabelDecidesTheClass ==
    (summary # Nothing /\ Len(fills) = 1) =>
        /\ OneTrade
        /\ summary.trades[1].type \in TradeTypes
        /\ HasWord(fills[1].dir, WordOpen) => summary.trades[1].type = "OPEN"
        /\ (~HasWord(fills[1].dir, WordOpen) /\ HasWord(fills[1].dir, WordClose))
              => summary.trades[1].type = "CLOSE"

\* an upper-case OPEN label on a sell that shrinks a long position, classified OPEN
C17_Witness ==
    /\ OneTrade
    /\ fills[1].dir = <<"O", "P", "E", "N">>
    /\ fills[1].side = "A"
    /\ fills[1].startPosition = Num(2)
    /\ fills[1].sz = Num(1)
    /\ summary.trades[1].type = "OPEN"

\* the fill's size magnitude signed by its side: negative for a sell
SignedSize(f) == IF f.side = "A" THEN -f.sz.v ELSE f.sz.v

\* the class the position delta gives
Inferred(before, after) ==
    IF before = 0 THEN "OPEN"
    ELSE IF Abs(after) < Abs(before) THEN "REDUCE"
    ELSE IF Abs(after) > Abs(before) THEN "INCREASE"
    ELSE "CLOSE"

\* C18: for a fill whose label contains neither "open" nor "close" the class
\* is inferred from before = startPosition and after = before + signedSize,
\* the size being negative for a sell.
C18_DeltaInferenceUsesSignedSize ==
    (OneTrade /\ ~HasWord(fills[1].dir, WordOpen) /\ ~HasWord(fills[1].dir, WordClose)) =>
        summary.trades[1].type =
            Inferred(fills[1].startPosition.v,
                     fills[1].startPosition.v + SignedSize(fills[1]))

\* the fills whose numeric fields all parse
WellFormed(f) ==
    /\ f.px.t # "bad"
    /\ f.sz.t # "bad"
    /\ f.closedPnl.t # "bad"
    /\ f.startPosition.t # "bad"
    /\ f.time.t # "bad"

\* C19: a fill with a malformed numeric field is skipped: the summary is
\* still built, from the remaining fills.
C19_MalformedFillIsSkipped ==
    summary # Nothing =>
        /\ summary.kind = "summary"
        /\ Len(summary.trades) = Cardinality({i \in 1..Len(fills) : WellFormed(fills[i])})

\* sum of closedPnl over the fills, 0 where the key is absent
RECURSIVE SumClosedPnl(_)
SumClosedPnl(n) ==
    IF n = 0 THEN 0
    ELSE SumClosedPnl(n - 1) + (IF fills[n].closedPnl.t = "num" THEN fills[n].closedPnl.v ELSE 0)

FetchesSucceed ==
    /\ request.state_failures <= MAX_RETRIES
    /\ request.fills_failures <= MAX_RETRIES

\* the call has what its mode needs: a checkpoint in the incremental mode
Startable == request.scan_type = "incremental" => request.start_timestamp_ms # NoneTs

\* C15: in each of the three modes a wallet whose fetches succeed gets a
\* built summary, its fills fetched from now-24h in the 24h mode, from now-1h
\* in the 1h mode and from the checkpoint in the incremental mode.
C15_EveryModeBuildsASummary ==
    (recap # Nothing /\ FetchesSucceed /\ Startable) =>
        /\ recap.kind = "summary"
        /\ recap.since =
             CASE request.scan_type = "24h" -> now - DAY_MS
               [] request.scan_type = "1h" -> now - 3600000
               [] OTHER -> request.start_timestamp_ms

\* C16: when the account-state fetch (in any mode) or the fills fetch (the
\* 24h one) runs out of retries, the call still returns a summary, built from
\* empty data for the part that could not be fetched.
C16_ExhaustedFetchGivesEmptyData ==
    (/\ recap # Nothing
     /\ Startable
     /\ \/ request.state_failures > MAX_RETRIES
        \/ request.scan_type = "24h" /\ request.fills_failures > MAX_RETRIES)
    =>  /\ recap.kind = "summary"
        /\ request.state_failures > MAX_RETRIES =>
              (recap.summary.position_count = 0 /\ recap.summary.overall_pnl = 0)
        /\ request.fills_failures > MAX_RETRIES =>
              (recap.summary.trade_count = 0 /\ recap.summary.daily_pnl = 0)

\* sum of unrealized_pnl over the first n positions
RECURSIVE SumUnrealized(_)
SumUnrealized(n) ==
    IF n = 0 THEN 0 ELSE SumUnrealized(n - 1) + positions[n].unrealized_pnl

\* C21: the summary's overall P&L is the sum of the unrealized P&L over all
\* positions, 0 for the empty list, whatever the fills are.
C21_OverallPnlIsSumOfUnrealized ==
    summary.kind = "summary" =>
        /\ summary.overall_pnl = SumUnrealized(Len(positions))
        /\ positions = <<>> => summary.overall_pnl = 0

\* a loss and a gain in the positions, next to a fill with another realized P&L
C21_Witness ==
    /\ summary.kind = "summary"
    /\ Len(positions) = 2
    /\ positions[1].unrealized_pnl = -1
    /\ positions[2].unrealized_pnl = 2
    /\ Len(fills) = 1
    /\ fills[1].closedPnl = Num(2)
    /\ summary.overall_pnl = 1
    /\ summary.daily_pnl = 2

\* C22: the trade list of a built summary is ordered by timestamp, most
\* recent first (non-increasing).
C22_TradesMostRecentFirst ==
    summary.kind = "summary" =>
        \A i \in 1..(Len(summary.trades) - 1) :
            summary.trades[i].timestamp >= summary.trades[i + 1].timestamp

\* the older fill came first in the input and comes last in the output
C22_Witness ==
    /\ summary.kind = "summary"
    /\ Len(fills) = 2
    /\ fills[1].time = Num(1)
    /\ fills[2].time = Num(2)
    /\ Len(summary.trades) = 2
    /\ summary.trades[1].timestamp = 2
    /\ summary.trades[2].timestamp = 1

\* the raw entries of the account state that have a size other than zero and
\* whose numbers parse
Sized ==
    {i \in 1..Len(request.user_state) :
        /\ request.user_state[i].szi.t = "num"
        /\ request.user_state[i].szi.v # 0
        /\ request.user_state[i].unrealizedPnl.t # "bad"}

\* C23: every position produced by normalization has size > 0, and the
\* position count of a summary is the number of raw entries with a non-zero
\* size that parse.
C23_ZeroSizePositionsAreDiscarded ==
    (recap.kind = "summary" /\ request.state_failures <= MAX_RETRIES) =>
        /\ recap.summary.position_count = Cardinality(Sized)
        /\ LET ps == get_positions(request.state_failures, request.user_state) IN
              \A i \in 1..Len(ps) : ps[i].size > 0

\* one zero-size entry among three raw entries gives a count of 2
C23_Witness ==
    /\ recap.kind = "summary"
    /\ request.state_failures = 0
    /\ Len(request.user_state) = 3
    /\ request.user_state[1].szi = Num(-1)
    /\ request.user_state[2].szi = Num(0)
    /\ request.user_state[3].szi = Num(-1)
    /\ recap.summary.position_count = 2

\* C24: an incremental run that finds a checkpoint written earlier does not
\* fall back: it stays incremental, takes the checkpoint's timestamp as its
\* start, and fetches every wallet's fills since that timestamp.
C24_NextIncrementalRunUsesTheCheckpoint ==
    (EndedRunCall /\ invoked = "incremental" /\ file.kind = "object" /\ file.ts # NoneTs) =>
        /\ scan_type = "incremental"
        /\ start_timestamp_ms = file.ts
        /\ Count(calls, "get_user_fills_since") = Len(cfg.WALLET_ADDRESSES)

\* C25: every run with valid configuration ends with exit status 0 after it
\* has attempted every wallet; only a configuration error gives another status.
C25_ValidRunEndsWithStatusZero ==
    EndedRunCall =>
        /\ outcome.status = 0
        /\ Count(calls, "generate_wallet_recap") = Len(cfg.WALLET_ADDRESSES)

\* C28: by the end of a run the bot summary has been dispatched exactly once
\* if some wallet was routed to the bot bucket, and not at all otherwise.
C28_BotSummaryOnceIffBucketNotEmpty ==
    (EndedRunCall /\ invoked = "24h") =>
        Count(calls, "send_bot_summary") = (IF BotWallets # {} THEN 1 ELSE 0)

Successes == {i \in 1..(call.max_retries + 1) : call.outcomes[i]}

\* C26: the wrapper calls the function at most max_retries + 1 times, returns
\* the result of the first attempt that succeeds without calling again, and
\* raises only after every one of the max_retries + 1 attempts has failed.
C26_RetriesBoundedAndFirstSuccessReturned ==
    ended # Nothing =>
        /\ ended.attempts <= call.max_retries + 1
        /\ Successes # {} =>
              /\ ended.exc = NoneStr
              /\ \A i \in Successes : ended.attempts <= i
              /\ ended.attempts \in Successes
              /\ ended.value = ended.attempts
        /\ Successes = {} =>
              /\ ended.exc = "HyperliquidAPIError"
              /\ ended.attempts = call.max_retries + 1

\* two failures, then the third of four possible attempts returns
C26_Witness ==
    /\ ended # Nothing
    /\ call.max_retries = MAX_RETRIES
    /\ call.outcomes = <<FALSE, FALSE, TRUE, TRUE>>
    /\ ended.exc = NoneStr
    /\ ended.attempts = 3
    /\ ended.value = 3

\* C27: the wait after the k-th failed attempt (k from 0) is the base delay
\* times 2^k; there is one wait between two attempts and none after the last
\* attempt, failed or not.
C27_WaitsDoubleAndOnlyBetweenAttempts ==
    ended # Nothing =>
        /\ Len(ended.waits) = ended.attempts - 1
        /\ \A k \in 0..(Len(ended.waits) - 1) :
              ended.waits[k + 1] = call.retry_delay * 2 ^ k

\* every attempt failed: three waits for four attempts
C27_Witness ==
    /\ ended # Nothing
    /\ ended.exc = "HyperliquidAPIError"
    /\ call.retry_delay = RETRY_DELAY
    /\ ended.attempts = MAX_RETRIES + 1
    /\ ended.waits = <<5, 10, 20>>

\* C30: however many symbols are resolved on one client, the metadata
\* endpoint is fetched at most once, whatever the first fetch answered; an id
\* that is not in the "@<index>" form triggers no fetch and comes back
\* unchanged.
C30_MetadataFetchedAtMostOnce ==
    /\ meta_fetches <= 1
    /\ (resolved # Nothing /\ ~startswith_at(resolved.asset_id)) =>
           (resolved.name = resolved.asset_id /\ ~resolved.fetched)

\* positions of the lines of a kind in a message
LinesOf(msg, kind) == {i \in 1..Len(msg) : msg[i].kind = kind}

\* C31: the rendered recap lists exactly min(n, 20) trades, n the length of
\* the summary's trade list, and they are the first, most recent, ones in
\* order; the note announcing n - 20 further trades appears exactly when
\* n > 20, the no-activity notice exactly when n = 0.
C31_RenderedTradesAreCappedAtTwenty ==
    message # Nothing =>
        LET n == Len(summary.trades)
            shown == IF n < 20 THEN n ELSE 20
            at == LinesOf(message, "trade")
        IN  /\ Cardinality(at) = shown
            /\ \A i \in at :
                  LET a == Cardinality({j \in at : j <= i})
                  IN  message[i] = notifier_format_trade(summary.trades[a])
            /\ \A a \in 1..shown : \A b \in (shown + 1)..n :
                  summary.trades[a].timestamp >= summary.trades[b].timestamp
            /\ (LinesOf(message, "more") # {}) <=> (n > 20)
            /\ \A i \in LinesOf(message, "more") : message[i].remaining = n - 20
            /\ Cardinality(LinesOf(message, "more")) <= 1
            /\ (LinesOf(message, "no_trades") # {}) <=> (n = 0)

\* 22 trades, of which the two oldest are left out and announced; the fill
\* list held one more fill, which was skipped
C31_Witness ==
    /\ message # Nothing
    /\ Len(summary.trades) = 22
    /\ summary.trade_count = 23
    /\ summary.trades[20].timestamp > summary.trades[21].timestamp
    /\ Cardinality(LinesOf(message, "trade")) = 20
    /\ \E i \in LinesOf(message, "more") : message[i].remaining = 2

\* C33: in every built summary the trade count is the length of the trade
\* list and the activity flag is true exactly when the list is not empty.
C33_TradeCountIsTheLengthOfTheTradeList ==
    (summary # Nothing /\ summary.kind = "summary") =>
        /\ summary.trade_count = Len(summary.trades)
        /\ summary.has_activity <=> (summary.trades # <<>>)

\* the mode a run works in after its setup: "24h" for an incremental run
\* that finds no timestamp in the state file, else the mode it was invoked with
ModeAfterSetup ==
    IF invoked = "incremental" /\ get_last_run_timestamp(sm.state).ts = NoneTs
    THEN "24h" ELSE invoked

\* C34: the checkpoint a run writes at its end records the mode the run worked
\* in: "24h" when an incremental run fell back for lack of a checkpoint, the
\* invoked mode in every other run.
C34_CheckpointRecordsTheModeOfTheRun ==
    EndedRunCall =>
        /\ scan_type = ModeAfterSetup
        /\ file.kind = "object"
        /\ file.mode = ModeAfterSetup
        /\ lastSaved.ok /\ lastSaved.mode = ModeAfterSetup

====
